---- MODULE Spec2Model ----
(***************************************************************************)
(* Model of monad-fetch-price (src/main.go, the cached server, lines       *)
(* 200-474): the HTTP handler handleTokenPrice, the nested TokenPairCache  *)
(* behind a sync.RWMutex, and the scraping fetchTokenPrice.                *)
(*                                                                         *)
(* Every request runs on its own goroutine (a process of Procs).  A        *)
(* process steps through the handler; the cache calls are split at the     *)
(* lock operations and at every map write, so that the interleavings the   *)
(* Go scheduler can produce are the interleavings of the model.            *)
(*                                                                         *)
(* Time is a discrete clock counted in hours (CACHE_TTL = 2 * time.Hour).  *)
(* Texts read from the page are sequences of one-character strings, so     *)
(* that trimming and parsing are computed, not assumed.  An amount is the  *)
(* float64 nearest to a decimal n / 10^k, written [n, k]; the products and *)
(* the roundings of float64 arithmetic are computed on long naturals.      *)
(***************************************************************************)
EXTENDS Integers, Sequences, FiniteSets, TLC

\* ------------------------------------------------------------------ bounds
\* The clock runs from 0 to MaxTime hours.
MaxTime == 3
\* At most MaxRequests requests are started in a behaviour.
MaxRequests == 2

\* The goroutines serving requests.
Procs == {"p1", "p2"}

\* ------------------------------------------------------- program constants
CACHE_TTL == 2

tokenAddresses ==
  [s \in {"mon", "wmon", "dak", "lbtc", "usdc", "usdt", "eth", "wbtc"} |->
     CASE s = "mon"  -> "0x0000000000000000000000000000000000000000"
       [] s = "wmon" -> "0x0000000000000000000000000000000000000000"
       [] s = "dak"  -> "0x0F0BDEbF0F83cD1EE3974779Bcb7315f9808c714"
       [] s = "lbtc" -> "0x73a58b73018c1a417534232529b57b99132b13D2"
       [] s = "usdc" -> "0xf817257fed379853cDe0fa4F97AB987181B1E5Ea"
       [] s = "usdt" -> "0xf817257fed379853cDe0fa4F97AB987181B1E5Ea"
       [] s = "eth"  -> "0xB5a30b0FDc5EA94A52fDc42e3E9760Cb8449Fb37"
       [] s = "wbtc" -> "0xcf5a6076cfa32686c0Df13aBaDa2b40dec133F1d"]

\* ------------------------------------------------------------ request inputs
\* The query triples (input, output, amount) the clients send.  "" is a
\* missing parameter (gin's c.Query returns "" for it); "USDC" and "doge"
\* are not keys of the registry.
ValidQueries ==
  { <<"usdc", "eth", "1">>, <<"usdc", "eth", "1.0">>,
    <<"eth", "usdc", "1">> }

BadQueries ==
  { <<"", "eth", "1">>, <<"usdc", "", "1">>, <<"usdc", "eth", "">>,
    <<"doge", "eth", "">>, <<"doge", "eth", "1">>, <<"usdc", "USDC", "1">>,
    <<"doge", "USDC", "1">> }

Queries == ValidQueries \cup BadQueries

\* Queries for symbols that the registry maps to one address (usdc and usdt,
\* mon and wmon), with two that are rejected.
AliasQueries ==
  { <<"usdc", "mon", "1">>, <<"usdt", "mon", "1">>, <<"usdc", "wmon", "1">>,
    <<"doge", "mon", "1">>, <<"usdc", "mon", "">> }

\* ------------------------------------------------------------------ numbers
\* math.Pow10
Pow10(d) == 10 ^ d

\* The decimal number n / 10^k.
Dec(n, k) == [n |-> n, k |-> k]

\* ------------------------------------------------------------ long naturals
\* A natural number too long for a machine word of the checker: its digits
\* in base Base, least significant first, no leading zero.
Base == 10000

RECURSIVE Big(_)
Big(n) == IF n = 0 THEN <<>> ELSE <<n % Base>> \o Big(n \div Base)

RECURSIVE BigVal(_)
BigVal(a) == IF a = <<>> THEN 0 ELSE Head(a) + Base * BigVal(Tail(a))

\* a * c + carry, for a small c.
RECURSIVE BigMul(_, _, _)
BigMul(a, c, carry) ==
  IF a = <<>> THEN Big(carry)
  ELSE LET v == Head(a) * c + carry
       IN <<v % Base>> \o BigMul(Tail(a), c, v \div Base)

\* Powers of the small c are taken ChunkLen(c) at a time: c^ChunkLen(c) is
\* still small.
ChunkLen(c) == IF c = 2 THEN 13 ELSE 3

Min(i, j) == IF i < j THEN i ELSE j

\* a * c^j
RECURSIVE BigTimes(_, _, _)
BigTimes(a, c, j) ==
  IF j = 0 THEN a
  ELSE LET step == Min(j, ChunkLen(c))
       IN BigTimes(BigMul(a, c ^ step, 0), c, j - step)

RECURSIVE BigStrip(_)
BigStrip(a) ==
  IF a # <<>> /\ a[Len(a)] = 0 THEN BigStrip(SubSeq(a, 1, Len(a) - 1)) ELSE a

\* The quotient and the remainder of (rem * Base^Len(a) + a) by a small c.
RECURSIVE BigDivRem(_, _, _)
BigDivRem(a, c, rem) ==
  IF a = <<>> THEN [q |-> <<>>, r |-> rem]
  ELSE LET v    == rem * Base + a[Len(a)]
           rest == BigDivRem(SubSeq(a, 1, Len(a) - 1), c, v % c)
       IN [q |-> rest.q \o <<v \div c>>, r |-> rest.r]

BigDiv(a, c) ==
  LET d == BigDivRem(a, c, 0) IN [q |-> BigStrip(d.q), r |-> d.r]

\* a < b
RECURSIVE BigLess(_, _)
BigLess(a, b) ==
  IF Len(a) # Len(b) THEN Len(a) < Len(b)
  ELSE IF a = <<>> THEN FALSE
  ELSE IF a[Len(a)] # b[Len(b)] THEN a[Len(a)] < b[Len(b)]
  ELSE BigLess(SubSeq(a, 1, Len(a) - 1), SubSeq(b, 1, Len(b) - 1))

BigOdd(a) == a # <<>> /\ a[1] % 2 = 1

\* ----------------------------------------------------------------- float64
\* A float64 is [neg, m, e]: the number m / 2^e, negated when neg, with m a
\* long natural below 2^53.  (The numbers of the model are below 2^53 in
\* magnitude and far above the subnormals.)
MantissaBits == 53

\* a / c^j, a divided j times by the small c: the quotient, the last
\* remainder, and whether an earlier remainder was not zero.
RECURSIVE DivTimes(_, _, _, _, _)
DivTimes(a, c, j, last, sticky) ==
  IF j = 0 THEN [q |-> a, last |-> last, sticky |-> sticky]
  ELSE IF j > 1
    THEN LET step == Min(j - 1, ChunkLen(c))
             d    == BigDiv(a, c ^ step)
         IN DivTimes(d.q, c, j - step, 0, sticky \/ last # 0 \/ d.r # 0)
  ELSE LET d == BigDiv(a, c)
       IN DivTimes(d.q, c, j - 1, d.r, sticky \/ last # 0)

\* a / c^j rounded to the nearest integer, ties to even.
RoundNearestEven(a, c, j) ==
  LET d    == DivTimes(a, c, j, 0, FALSE)
      half == c \div 2
      up   == \/ d.last > half
              \/ d.last = half /\ d.sticky
              \/ d.last = half /\ ~d.sticky /\ j > 0 /\ BigOdd(d.q)
  IN IF up THEN BigMul(d.q, 1, 1) ELSE d.q

\* The least e with a * 2^e >= lim.
\* by steps of `step` and less.
RECURSIVE Exponent(_, _, _, _)
Exponent(a, lim, e, step) ==
  IF step = 0 THEN e
  ELSE IF BigLess(BigTimes(a, 2, step - 1), lim)
    THEN Exponent(BigTimes(a, 2, step), lim, e + step, step)
  ELSE Exponent(a, lim, e, step \div 2)

\* The float64 nearest to a / c^j (round to nearest even), for a # 0.
Nearest(neg, a, c, j) ==
  LET lim == BigTimes(BigTimes(Big(1), 2, MantissaBits - 1), c, j)
      e   == Exponent(a, lim, 0, ChunkLen(2))
  IN [neg |-> neg, m |-> RoundNearestEven(BigTimes(a, 2, e), c, j), e |-> e]

Zero64 == [neg |-> FALSE, m |-> <<>>, e |-> 0]

\* strconv.ParseFloat: the float64 nearest to the decimal x.
Float64(x) ==
  IF x.n = 0 THEN Zero64
  ELSE Nearest(x.n < 0, Big(IF x.n < 0 THEN 0 - x.n ELSE x.n), 10, x.k)

\* f * 10^d in float64 arithmetic.
TimesPow10(f, d) ==
  IF f.m = <<>> THEN f ELSE Nearest(f.neg, BigTimes(f.m, 10, d), 2, f.e)

\* math.Floor(f), as an integer.
Floor(f) ==
  LET d == DivTimes(f.m, 2, f.e, 0, FALSE)
      q == BigVal(d.q)
      exact == d.last = 0 /\ ~d.sticky
  IN IF ~f.neg THEN q ELSE IF exact THEN 0 - q ELSE 0 - q - 1

\* ------------------------------------------------------------------- texts
Digits == {"0", "1", "2", "3", "4", "5", "6", "7", "8", "9"}

DigitVal(c) ==
  CASE c = "0" -> 0 [] c = "1" -> 1 [] c = "2" -> 2 [] c = "3" -> 3
    [] c = "4" -> 4 [] c = "5" -> 5 [] c = "6" -> 6 [] c = "7" -> 7
    [] c = "8" -> 8 [] c = "9" -> 9

RECURSIVE TrimLeft(_)
TrimLeft(s) == IF s # <<>> /\ Head(s) = " " THEN TrimLeft(Tail(s)) ELSE s

RECURSIVE TrimRight(_)
TrimRight(s) ==
  IF s # <<>> /\ s[Len(s)] = " " THEN TrimRight(SubSeq(s, 1, Len(s) - 1)) ELSE s

\* strings.TrimSpace
TrimSpace(s) == TrimRight(TrimLeft(s))

\* The value of a sequence of digits, most significant first.
RECURSIVE DigitsVal(_)
DigitsVal(s) ==
  IF s = <<>> THEN 0 ELSE 10 * DigitsVal(SubSeq(s, 1, Len(s) - 1)) + DigitVal(s[Len(s)])

\* strconv.ParseFloat(s, 64) on the texts of the model: an optional sign,
\* digits with at most one point and at least one digit.  Anything else is
\* "invalid syntax".  (Exponents, hex, inf and nan are not among the texts.)
ParseFloat(s) ==
  LET neg  == s # <<>> /\ Head(s) = "-"
      body == IF s # <<>> /\ Head(s) \in {"-", "+"} THEN Tail(s) ELSE s
      dots == {j \in 1..Len(body) : body[j] = "."}
      ok   == /\ Cardinality(dots) <= 1
              /\ \A j \in 1..Len(body) : body[j] \in Digits \cup {"."}
              /\ \E j \in 1..Len(body) : body[j] \in Digits
      p    == IF dots = {} THEN Len(body) + 1 ELSE CHOOSE j \in dots : TRUE
      int  == SubSeq(body, 1, p - 1)
      frac == SubSeq(body, p + 1, Len(body))
      mag  == DigitsVal(int \o frac)
  IN IF ok
       THEN [val |-> Dec(IF neg THEN 0 - mag ELSE mag, Len(frac)), err |-> <<>>]
       ELSE [val |-> Dec(0, 0),
             err |-> <<"strconv.ParseFloat: parsing ", s, ": invalid syntax">>]

\* ----------------------------------------------------------------- Result
\* time.Now().Format(time.RFC3339): the text of the instant t.  The empty
\* string of the zero Result is <<>>.
FormatRFC3339(t) == <<t>>

\* type Result; ExchangeRate is the quotient num / den of two amounts (a den
\* of zero is the float division by zero).
MkResult(inAmount, inToken, outAmount, outToken, rate, stamp) ==
  [Input        |-> [Amount |-> inAmount, Token |-> inToken],
   Output       |-> [Amount |-> outAmount, Token |-> outToken],
   ExchangeRate |-> rate,
   Timestamp    |-> stamp]

\* Result{}, the zero value.
EmptyResult ==
  MkResult(Dec(0, 0), "", Dec(0, 0), "", [num |-> Dec(0, 0), den |-> Dec(1, 0)], <<>>)

NoErr == <<>>

\* ------------------------------------------------------------------ Fetcher
\* What the swap page shows to one browser session:
\*   runErr     the error of chromedp.Run up to the reads (NoErr when none),
\*   inputValue the value read back from the amount input,
\*   second     the value of the second "0.00" input ("" when there is none),
\*   fbErr      whether the fallback Evaluate fails,
\*   fallback   the value the fallback selector reads.
MkPage(runErr, inputValue, second, fbErr, fallback) ==
  [runErr |-> runErr, inputValue |-> inputValue, second |-> second,
   fbErr |-> fbErr, fallback |-> fallback]

\* The pages of the model: one that shows a quote, one whose session runs
\* into the deadline, one whose amount input reads back empty.
Pages ==
  { MkPage(NoErr, <<"1", ".", "0", " ">>, <<"2", ".", "5", "5", "9">>, FALSE, <<>>),
    MkPage(<<"context deadline exceeded">>, <<>>, <<>>, FALSE, <<>>),
    MkPage(NoErr, <<>>, <<"2">>, FALSE, <<>>) }

\* context.DeadlineExceeded
DeadlineExceeded == <<"context deadline exceeded">>

\* The pages of the calls: one that shows a quote, one that does not load,
\* one whose amount input reads back empty, one whose output is not a number.
FetchPages ==
  { MkPage(NoErr, <<"1", ".", "0", " ">>, <<"2", ".", "5", "5", "9">>, FALSE, <<>>),
    MkPage(<<"page load error net::ERR_NAME_NOT_RESOLVED">>, <<>>, <<>>, FALSE, <<>>),
    MkPage(NoErr, <<>>, <<"2">>, FALSE, <<>>),
    MkPage(NoErr, <<"1">>, <<"-", "-">>, FALSE, <<>>) }

\* The pages and the queries of the scraping cases: a request for the pair
\* q on a site that shows the page.
Case(input, output, page) == [q |-> <<input, output, "1">>, page |-> page]

\* A page that shows the output value out for the read-back input in.
Shows(in, out) == MkPage(NoErr, in, out, FALSE, <<>>)

\* A page with no second "0.00" input, or a second input reading second,
\* and the fallback selector failing (fbErr) or reading fallback.
Falls(second, fbErr, fallback) == MkPage(NoErr, <<"1">>, second, fbErr, fallback)

ScrapeCases ==
  { \* amounts to truncate, per class of output token
    Case("usdc", "lbtc", Shows(<<"1">>, <<"0", ".", "1", "2", "3", "4", "5", "6", "7", "8", "9">>)),
    Case("usdc", "wbtc", Shows(<<"1">>, <<"0", ".", "1", "2", "3", "4", "5", "6", "7", "8", "9">>)),
    Case("eth", "usdc", Shows(<<"1">>, <<"9", ".", "9", "9", "9">>)),
    Case("eth", "usdt", Shows(<<"1">>, <<"9", ".", "9", "9", "9">>)),
    Case("eth", "usdc", Shows(<<"1">>, <<"0", ".", "2", "9">>)),
    Case("usdc", "eth", Shows(<<"1">>, <<"1", ".", "0", "0", "1">>)),
    Case("usdc", "eth", Shows(<<"2">>, <<"2", ".", "5", "5", "9", "9", "9", "9">>)),
    Case("usdc", "dak", Shows(<<"2">>, <<"2", ".", "5", "5", "9">>)),
    Case("usdc", "mon", Shows(<<"1">>, <<"5">>)),
    \* the two-step lookup of the output value
    Case("usdc", "eth", Falls(<<>>, FALSE, <<"3", ".", "5">>)),
    Case("usdc", "eth", Falls(<<>>, FALSE, <<>>)),
    Case("usdc", "eth", Falls(<<>>, TRUE, <<"3", ".", "5">>)),
    Case("usdc", "eth", Falls(<<"0">>, FALSE, <<"7", ".", "2", "5">>)),
    Case("usdc", "eth", Falls(<<"2", ".", "5">>, FALSE, <<"7", ".", "2", "5">>)),
    Case("usdc", "eth", Falls(<<"0">>, FALSE, <<"n", "/", "a">>)),
    \* values that do not parse
    Case("usdc", "eth", Shows(<<>>, <<"2">>)),
    Case("usdc", "eth", Shows(<<"1", ",", "5">>, <<"2">>)),
    Case("usdc", "eth", Shows(<<"1">>, <<" ">>)),
    Case("usdc", "eth", Shows(<<"1">>, <<"1", ",", "0", "0", "0", ".", "5">>)),
    \* a run that fails
    Case("usdc", "eth", MkPage(DeadlineExceeded, <<>>, <<>>, FALSE, <<>>)),
    \* a read-back input of zero
    Case("usdc", "eth", Shows(<<"0">>, <<"2", ".", "5">>)),
    Case("usdc", "eth", Shows(<<" ", "0", ".", "0">>, <<"0">>)) }

ScrapePages == { c.page : c \in ScrapeCases }
ScrapeQueries == { c.q : c \in ScrapeCases }

\* The primary read: `...[1]?.value || "0"`.
PrimaryRead(page) == IF page.second = <<>> THEN <<"0">> ELSE page.second

\* Mutant: the fallback value is taken whenever there is one.
ResolveOutput_FallbackAlways(page) ==
  LET primary == PrimaryRead(page)
  IN IF ~page.fbErr /\ page.fallback # <<>> THEN page.fallback ELSE primary

\* The output value after the fallback probe.
ResolveOutput(page) ==
  LET primary == PrimaryRead(page)
  IN IF primary = <<"0">> \/ primary = <<>>
       THEN IF ~page.fbErr /\ page.fallback # <<>> THEN page.fallback ELSE primary
       ELSE primary

\* The switch on outputToken.
DecimalPlaces(outputToken) ==
  CASE outputToken = "lbtc" -> 8
    [] outputToken = "usdc" -> 2
    [] outputToken = "usdt" -> 2
    [] outputToken = "eth"  -> 5
    [] outputToken = "wbtc" -> 8
    [] OTHER -> 2

\* math.Floor(outputAmount*factor) / factor with factor = math.Pow10(d), on
\* the float64 nearest to x: the float64 nearest to n / 10^d, written
\* Dec(n, d), for the integer n that math.Floor returns.
FloorTo(x, d) == Dec(Floor(TimesPow10(Float64(x), d)), d)

\* outputAmount / inputAmount, kept as the pair of its operands.
Quotient(out, in) == [num |-> out, den |-> in]

\* Mutant: an output value that does not parse counts as zero.
Amounts_OutputErrIgnored(page, d) ==
  LET inP  == ParseFloat(TrimSpace(page.inputValue))
      outP == ParseFloat(TrimSpace(ResolveOutput(page)))
  IN IF page.runErr # NoErr
       THEN [err |-> page.runErr, in |-> Dec(0, 0), out |-> Dec(0, 0)]
     ELSE IF inP.err # NoErr
       THEN [err |-> inP.err, in |-> Dec(0, 0), out |-> Dec(0, 0)]
     ELSE [err |-> NoErr, in |-> inP.val, out |-> FloorTo(outP.val, d)]

\* Mutant: a read-back input of zero is an error.
Amounts_ZeroInputRejected(page, d) ==
  LET inP  == ParseFloat(TrimSpace(page.inputValue))
      outP == ParseFloat(TrimSpace(ResolveOutput(page)))
  IN IF page.runErr # NoErr
       THEN [err |-> page.runErr, in |-> Dec(0, 0), out |-> Dec(0, 0)]
     ELSE IF inP.err # NoErr
       THEN [err |-> inP.err, in |-> Dec(0, 0), out |-> Dec(0, 0)]
     ELSE IF outP.err # NoErr
       THEN [err |-> outP.err, in |-> Dec(0, 0), out |-> Dec(0, 0)]
     ELSE IF inP.val.n = 0
       THEN [err |-> <<"division by zero">>, in |-> Dec(0, 0), out |-> Dec(0, 0)]
     ELSE [err |-> NoErr, in |-> inP.val, out |-> FloorTo(outP.val, d)]

\* fetchTokenPrice from the end of the run to the truncation, on a page and
\* for an output token of d decimal places: the error, or the parsed input
\* amount and the truncated output amount.
Amounts(page, d) ==
  LET inP  == ParseFloat(TrimSpace(page.inputValue))
      outP == ParseFloat(TrimSpace(ResolveOutput(page)))
  IN IF page.runErr # NoErr
       THEN [err |-> page.runErr, in |-> Dec(0, 0), out |-> Dec(0, 0)]
     ELSE IF inP.err # NoErr
       THEN [err |-> inP.err, in |-> Dec(0, 0), out |-> Dec(0, 0)]
     ELSE IF outP.err # NoErr
       THEN [err |-> outP.err, in |-> Dec(0, 0), out |-> Dec(0, 0)]
     ELSE [err |-> NoErr, in |-> inP.val, out |-> FloorTo(outP.val, d)]

\* Amounts on every page of the model and every number of decimal places,
\* computed once.
AmountsOf ==
  { [page |-> page, d |-> d, is |-> Amounts(page, d)] :
      page \in Pages \cup FetchPages \cup ScrapePages,
      d \in { DecimalPlaces(o) : o \in DOMAIN tokenAddresses } }

\* fetchTokenPrice on the page its session sees, returning at time t.
fetchTokenPrice(inputToken, outputToken, amount, targetURL, page, t) ==
  LET a == (CHOOSE e \in AmountsOf :
              e.page = page /\ e.d = DecimalPlaces(outputToken)).is
  IN IF a.err # NoErr
       THEN [res |-> EmptyResult, err |-> a.err]
       ELSE [res |-> MkResult(a.in, inputToken, a.out, outputToken,
                              Quotient(a.out, a.in), FormatRFC3339(t)),
             err |-> NoErr]

\* chromedp.NewExecAllocator, chromedp.NewContext, context.WithTimeout: the
\* call on p gets a browser session of its own.
NewContext(s, p) == s \cup {p}

\* Mutant: the session is torn down only when the call has a quote to return.
cancel_OnSuccessOnly(s, p, r) == IF r.err = NoErr THEN s \ {p} ELSE s

\* The three deferred cancel() of the call on p, run when it returns r: the
\* session is torn down whatever r is.
cancel(s, p, r) == s \ {p}

\* -------------------------------------------------------------------- Cache
\* A Go map is a function on the set of its keys.
EmptyMap == [x \in {} |-> {}]

MapPut(m, k, v) == [x \in DOMAIN m \cup {k} |-> IF x = k THEN v ELSE m[x]]

\* type CacheEntry
MkEntry(result, expiresAt) == [Result |-> result, ExpiresAt |-> expiresAt]

\* Mutant: the expiry instant itself counts as after.
After_OrAt(t, u) == t >= u

\* Mutant: the expiry test reversed (Before for After).
After_Reversed(t, u) == t < u

\* time.Time.After
After(t, u) == t > u

\* Mutant: the amount level is not keyed by the amount, any entry of the
\* pair answers.
Get_AnyAmount(c, inputToken, outputToken, amount, t) ==
  IF inputToken \notin DOMAIN c
    THEN [Result |-> EmptyResult, found |-> FALSE]
  ELSE IF outputToken \notin DOMAIN c[inputToken]
    THEN [Result |-> EmptyResult, found |-> FALSE]
  ELSE IF DOMAIN c[inputToken][outputToken] = {}
    THEN [Result |-> EmptyResult, found |-> FALSE]
  ELSE LET a == CHOOSE x \in DOMAIN c[inputToken][outputToken] : TRUE
       IN IF After(t, c[inputToken][outputToken][a].ExpiresAt)
            THEN [Result |-> EmptyResult, found |-> FALSE]
            ELSE [Result |-> c[inputToken][outputToken][a].Result, found |-> TRUE]

\* Mutant: an entry is looked up by the addresses of the symbols.
Get_ByAddress(c, inputToken, outputToken, amount, t) ==
  LET hits == { k \in (DOMAIN tokenAddresses) \X (DOMAIN tokenAddresses) :
                  /\ tokenAddresses[k[1]] = tokenAddresses[inputToken]
                  /\ tokenAddresses[k[2]] = tokenAddresses[outputToken]
                  /\ k[1] \in DOMAIN c
                  /\ k[2] \in DOMAIN c[k[1]]
                  /\ amount \in DOMAIN c[k[1]][k[2]]
                  /\ ~After(t, c[k[1]][k[2]][amount].ExpiresAt) }
  IN IF hits = {}
       THEN [Result |-> EmptyResult, found |-> FALSE]
       ELSE LET k == CHOOSE h \in hits : h # <<inputToken, outputToken>> \/ hits = {h}
            IN [Result |-> c[k[1]][k[2]][amount].Result, found |-> TRUE]

\* The body of TokenPairCache.Get on the map c at time t.
Get(c, inputToken, outputToken, amount, t) ==
  IF inputToken \notin DOMAIN c
    THEN [Result |-> EmptyResult, found |-> FALSE]
  ELSE IF outputToken \notin DOMAIN c[inputToken]
    THEN [Result |-> EmptyResult, found |-> FALSE]
  ELSE IF amount \notin DOMAIN c[inputToken][outputToken]
    THEN [Result |-> EmptyResult, found |-> FALSE]
  ELSE IF After(t, c[inputToken][outputToken][amount].ExpiresAt)
    THEN [Result |-> EmptyResult, found |-> FALSE]
  ELSE [Result |-> c[inputToken][outputToken][amount].Result, found |-> TRUE]

\* Mutant: Get evicts the stale entry it finds.
CacheAfterGet_Evict(c, inputToken, outputToken, amount, t) ==
  IF /\ inputToken \in DOMAIN c
     /\ outputToken \in DOMAIN c[inputToken]
     /\ amount \in DOMAIN c[inputToken][outputToken]
     /\ After(t, c[inputToken][outputToken][amount].ExpiresAt)
    THEN MapPut(c, inputToken,
           MapPut(c[inputToken], outputToken,
             [x \in DOMAIN c[inputToken][outputToken] \ {amount} |->
                c[inputToken][outputToken][x]]))
    ELSE c

\* The map after a Get: Get writes nothing, a stale entry stays where it is.
CacheAfterGet(c, inputToken, outputToken, amount, t) == c

\* Mutant: the level of inputToken is made anew on every Set.
SetInputLevel_Anew(c, inputToken) == MapPut(c, inputToken, EmptyMap)

\* Set, first statement: create the level of inputToken when it is missing.
SetInputLevel(c, inputToken) ==
  IF inputToken \notin DOMAIN c THEN MapPut(c, inputToken, EmptyMap) ELSE c

\* Mutant: the level of outputToken is made anew on every Set.
SetOutputLevel_Anew(c, inputToken, outputToken) ==
  MapPut(c, inputToken, MapPut(c[inputToken], outputToken, EmptyMap))

\* Set, second statement: create the level of outputToken when it is missing.
SetOutputLevel(c, inputToken, outputToken) ==
  IF outputToken \notin DOMAIN c[inputToken]
    THEN MapPut(c, inputToken, MapPut(c[inputToken], outputToken, EmptyMap))
    ELSE c

\* Mutant: the entry is stamped with the time of the Set, without the TTL.
SetAmountEntry_NoTTL(c, inputToken, outputToken, amount, result, t) ==
  MapPut(c, inputToken,
    MapPut(c[inputToken], outputToken,
      MapPut(c[inputToken][outputToken], amount, MkEntry(result, t))))

\* Mutant: an entry that is there is kept, the first Set wins.
SetAmountEntry_KeepFirst(c, inputToken, outputToken, amount, result, t) ==
  IF amount \in DOMAIN c[inputToken][outputToken]
    THEN c
    ELSE MapPut(c, inputToken,
           MapPut(c[inputToken], outputToken,
             MapPut(c[inputToken][outputToken], amount,
                    MkEntry(result, t + CACHE_TTL))))

\* Set, third statement: the assignment of the entry.
SetAmountEntry(c, inputToken, outputToken, amount, result, t) ==
  MapPut(c, inputToken,
    MapPut(c[inputToken], outputToken,
      MapPut(c[inputToken][outputToken], amount,
             MkEntry(result, t + CACHE_TTL))))

\* ------------------------------------------------------------------ Handler
None == "none"

BadRequest(text) == [status |-> 400, body |-> [error |-> text]]
InternalServerError(err) == [status |-> 500, body |-> [error |-> err]]
OK(result) == [status |-> 200, body |-> result]
NoResponse == [status |-> 0, body |-> <<>>]

\* Mutant: the registry is consulted before the parameters are tested for
\* presence.
Validate_RegistryFirst(inputToken, outputToken, amount) ==
  IF inputToken \notin DOMAIN tokenAddresses
    THEN BadRequest(<<"unsupported input token: ", inputToken>>)
  ELSE IF outputToken \notin DOMAIN tokenAddresses
    THEN BadRequest(<<"unsupported output token: ", outputToken>>)
  ELSE IF inputToken = "" \/ outputToken = "" \/ amount = ""
    THEN BadRequest(<<"input, output, and amount parameters are required">>)
  ELSE NoResponse

\* Mutant: the output symbol is looked up before the input symbol.
Validate_OutputFirst(inputToken, outputToken, amount) ==
  IF inputToken = "" \/ outputToken = "" \/ amount = ""
    THEN BadRequest(<<"input, output, and amount parameters are required">>)
  ELSE IF outputToken \notin DOMAIN tokenAddresses
    THEN BadRequest(<<"unsupported output token: ", outputToken>>)
  ELSE IF inputToken \notin DOMAIN tokenAddresses
    THEN BadRequest(<<"unsupported input token: ", inputToken>>)
  ELSE NoResponse

\* handleTokenPrice up to the cache probe: the response of a rejected
\* request, NoResponse for a request that goes on.
Validate(inputToken, outputToken, amount) ==
  IF inputToken = "" \/ outputToken = "" \/ amount = ""
    THEN BadRequest(<<"input, output, and amount parameters are required">>)
  ELSE IF inputToken \notin DOMAIN tokenAddresses
    THEN BadRequest(<<"unsupported input token: ", inputToken>>)
  ELSE IF outputToken \notin DOMAIN tokenAddresses
    THEN BadRequest(<<"unsupported output token: ", outputToken>>)
  ELSE NoResponse

\* fmt.Sprintf("https://kuru.io/swap?from=%s&to=%s", fromAddress, toAddress)
TargetURL(inputToken, outputToken) ==
  <<"https://kuru.io/swap?from=", tokenAddresses[inputToken],
    "&to=", tokenAddresses[outputToken]>>

\* -------------------------------------------------------------------- state
VARIABLES
  cache,    \* TokenPairCache.cache: inputToken -> outputToken -> amount -> entry
  mutex,    \* TokenPairCache.mutex: the read holders and the writer
  now,      \* the clock, in hours
  pc,       \* where each goroutine is in handleTokenPrice
  args,     \* its inputToken, outputToken, amount
  got,      \* what its cache.Get returned
  ret,      \* what its fetchTokenPrice returned
  resp,     \* the response it wrote
  started,  \* history: the number of requests started
  trace,    \* history: the calls the request has made (get, fetch, set)
  fetches,  \* history: the number of Fetcher calls per key triple
  lastSet,  \* history: per key triple, the Set calls made: their number, and
            \* the quote and the time of the last one
  pre,      \* history: what the request found when it arrived
  sessions, \* the live browser sessions, each named by the call that owns it
  expired,  \* whether the 30-second deadline of the call's context has elapsed
  view,     \* the page the call's session is looking at
  clients,  \* the query triples the clients of this behaviour send
  site      \* the pages the swap site shows in this behaviour

vars ==
  <<cache, mutex, now, pc, args, got, ret, resp, started, trace, fetches,
    lastSet, pre, sessions, expired, view, clients, site>>

Keys == Queries \cup ScrapeQueries \cup AliasQueries

NoArgs == [inputToken |-> "", outputToken |-> "", amount |-> ""]
NoGot == [Result |-> EmptyResult, found |-> FALSE]
NoRet == [res |-> EmptyResult, err |-> NoErr]
NoSet == [n |-> 0, q |-> EmptyResult, at |-> 0]
NoPre == [entry |-> <<>>, fetches |-> 0, sets |-> 0, failed |-> FALSE]
NoView == [page |-> MkPage(NoErr, <<>>, <<>>, FALSE, <<>>), visible |-> FALSE]

KeyOf(p) == <<args[p].inputToken, args[p].outputToken, args[p].amount>>

\* The entry physically stored for a triple: <<entry>>, or <<>> when there
\* is none.
Stored(c, k) ==
  IF k[1] \in DOMAIN c /\ k[2] \in DOMAIN c[k[1]] /\ k[3] \in DOMAIN c[k[1]][k[2]]
    THEN <<c[k[1]][k[2]][k[3]]>>
    ELSE <<>>

\* NewTokenPairCache and idle goroutines, for clients that send the queries
\* qs to a server whose browser sessions see the pages pgs.
Start(qs, pgs) ==
  /\ cache = EmptyMap
  /\ mutex = [readers |-> {}, w |-> None]
  /\ now = 0
  /\ pc = [p \in Procs |-> "idle"]
  /\ args = [p \in Procs |-> NoArgs]
  /\ got = [p \in Procs |-> NoGot]
  /\ ret = [p \in Procs |-> NoRet]
  /\ resp = [p \in Procs |-> NoResponse]
  /\ started = 0
  /\ trace = [p \in Procs |-> <<>>]
  /\ fetches = [k \in qs |-> 0]
  /\ lastSet = [k \in qs |-> NoSet]
  /\ pre = [p \in Procs |-> NoPre]
  /\ sessions = {}
  /\ expired = [p \in Procs |-> FALSE]
  /\ view = [p \in Procs |-> NoView]
  /\ clients = qs
  /\ site = pgs

Init == Start(Queries, Pages)

\* ------------------------------------------------------------------ actions
\* Mutant: RLock does not look at the writer.
CanRLock_Always(m) == TRUE

\* sync.RWMutex: RLock blocks while a writer holds or awaits the lock.
CanRLock(m) == m.w = None

\* Lock first takes the writers' mutex, which announces the writer.
CanLock(m) == m.w = None

\* The announced writer proceeds when the read holders have left.
CanProceed(m) == m.readers = {}

\* History: what a request for the triple k, arriving on p, finds: the entry
\* stored for k, the Fetcher and Set calls made for k so far, and whether a
\* request for k has been answered 500 with no Set for k since it arrived.
Arrival(p, k) ==
  [entry   |-> Stored(cache, k),
   fetches |-> fetches[k],
   sets    |-> lastSet[k].n,
   failed  |-> \E q \in Procs \ {p} :
                 /\ pc[q] = "done"
                 /\ KeyOf(q) = k
                 /\ resp[q].status = 500
                 /\ lastSet[k].n = pre[q].sets]

\* A request arrives on a goroutine whose handler is not running (none yet,
\* or the last one has returned): the parameters are read and validated.
Request(p, i, o, a) ==
  /\ pc[p] \in {"idle", "done"}
  /\ started < MaxRequests
  /\ started' = started + 1
  /\ args' = [args EXCEPT ![p] = [inputToken |-> i, outputToken |-> o, amount |-> a]]
  /\ pre' = [pre EXCEPT ![p] = Arrival(p, <<i, o, a>>)]
  /\ LET v == Validate(i, o, a)
     IN IF v # NoResponse
          THEN /\ resp' = [resp EXCEPT ![p] = v]
               /\ pc' = [pc EXCEPT ![p] = "done"]
          ELSE /\ resp' = [resp EXCEPT ![p] = NoResponse]
               /\ pc' = [pc EXCEPT ![p] = "get_rlock"]
  /\ got' = [got EXCEPT ![p] = NoGot]
  /\ ret' = [ret EXCEPT ![p] = NoRet]
  /\ trace' = [trace EXCEPT ![p] = <<>>]
  /\ UNCHANGED <<cache, mutex, now, fetches, lastSet>>
  /\ UNCHANGED <<sessions, expired, view, clients, site>>

\* cache.Get: c.mutex.RLock()
RLock(p) ==
  /\ pc[p] = "get_rlock"
  /\ CanRLock(mutex)
  /\ mutex' = [mutex EXCEPT !.readers = @ \cup {p}]
  /\ trace' = [trace EXCEPT ![p] = Append(@, "get")]
  /\ pc' = [pc EXCEPT ![p] = "get_read"]
  /\ UNCHANGED <<cache, now, args, got, ret, resp, started, fetches, lastSet, pre>>
  /\ UNCHANGED <<sessions, expired, view, clients, site>>

\* cache.Get: the lookups and the expiry test under the read lock, the deferred
\* RUnlock, and the handler's branch: a hit is answered, a miss calls the
\* Fetcher.
GetReturn(p) ==
  /\ pc[p] = "get_read"
  /\ LET g == Get(cache, args[p].inputToken, args[p].outputToken, args[p].amount, now)
     IN /\ got' = [got EXCEPT ![p] = g]
        /\ IF g.found
             THEN /\ resp' = [resp EXCEPT ![p] = OK(g.Result)]
                  /\ pc' = [pc EXCEPT ![p] = "done"]
                  /\ UNCHANGED <<trace, fetches>>
             ELSE /\ pc' = [pc EXCEPT ![p] = "fetching"]
                  /\ trace' = [trace EXCEPT ![p] = Append(@, "fetch")]
                  /\ fetches' = [fetches EXCEPT ![KeyOf(p)] = @ + 1]
                  /\ resp' = resp
        /\ sessions' = IF g.found THEN sessions ELSE NewContext(sessions, p)
  /\ cache' = CacheAfterGet(cache, args[p].inputToken, args[p].outputToken,
                            args[p].amount, now)
  /\ mutex' = [mutex EXCEPT !.readers = @ \ {p}]
  /\ UNCHANGED <<now, args, ret, started, lastSet, pre>>
  /\ UNCHANGED <<expired, view, clients, site>>

\* Mutant: the handler stores what the Fetcher returned before it looks at
\* the error.
FetchReturn_StoreFirst(p, page) ==
  /\ pc[p] = "fetching"
  /\ ret' = [ret EXCEPT ![p] =
               fetchTokenPrice(args[p].inputToken, args[p].outputToken,
                               args[p].amount,
                               TargetURL(args[p].inputToken, args[p].outputToken),
                               page, now)]
  /\ pc' = [pc EXCEPT ![p] = "set_lock"]
  /\ trace' = [trace EXCEPT ![p] = Append(@, "set")]
  /\ sessions' = sessions \ {p}
  /\ UNCHANGED <<cache, mutex, now, args, got, resp, started, fetches, lastSet, pre>>
  /\ UNCHANGED <<expired, view, clients, site>>

\* fetchTokenPrice returns, its deferred cancels run; an error is answered
\* 500, a quote goes to Set.
FetchReturn(p, page) ==
  /\ pc[p] = "fetching"
  /\ LET r == fetchTokenPrice(args[p].inputToken, args[p].outputToken, args[p].amount,
                              TargetURL(args[p].inputToken, args[p].outputToken),
                              page, now)
     IN /\ ret' = [ret EXCEPT ![p] = r]
        /\ IF r.err # NoErr
             THEN /\ resp' = [resp EXCEPT ![p] = InternalServerError(r.err)]
                  /\ pc' = [pc EXCEPT ![p] = "done"]
                  /\ trace' = trace
             ELSE /\ resp' = resp
                  /\ pc' = [pc EXCEPT ![p] = "set_lock"]
                  /\ trace' = [trace EXCEPT ![p] = Append(@, "set")]
        /\ sessions' = cancel(sessions, p, r)
  /\ UNCHANGED <<cache, mutex, now, args, got, started, fetches, lastSet, pre>>
  /\ UNCHANGED <<expired, view, clients, site>>

\* cache.Set: c.mutex.Lock(), the writer is announced.
Lock(p) ==
  /\ pc[p] = "set_lock"
  /\ CanLock(mutex)
  /\ mutex' = [mutex EXCEPT !.w = p]
  /\ pc' = [pc EXCEPT ![p] = "set_wait"]
  /\ UNCHANGED <<cache, now, args, got, ret, resp, started, trace, fetches,
                 lastSet, pre>>
  /\ UNCHANGED <<sessions, expired, view, clients, site>>

\* cache.Set: Lock returns once the readers have drained.
LockAcquired(p) ==
  /\ pc[p] = "set_wait"
  /\ CanProceed(mutex)
  /\ pc' = [pc EXCEPT ![p] = "set_input"]
  /\ UNCHANGED <<cache, mutex, now, args, got, ret, resp, started, trace, fetches,
                 lastSet, pre>>
  /\ UNCHANGED <<sessions, expired, view, clients, site>>

\* cache.Set: the level of the input token.
SetInput(p) ==
  /\ pc[p] = "set_input"
  /\ cache' = SetInputLevel(cache, args[p].inputToken)
  /\ pc' = [pc EXCEPT ![p] = "set_output"]
  /\ UNCHANGED <<mutex, now, args, got, ret, resp, started, trace, fetches,
                 lastSet, pre>>
  /\ UNCHANGED <<sessions, expired, view, clients, site>>

\* cache.Set: the level of the output token.
SetOutput(p) ==
  /\ pc[p] = "set_output"
  /\ cache' = SetOutputLevel(cache, args[p].inputToken, args[p].outputToken)
  /\ pc' = [pc EXCEPT ![p] = "set_entry"]
  /\ UNCHANGED <<mutex, now, args, got, ret, resp, started, trace, fetches,
                 lastSet, pre>>
  /\ UNCHANGED <<sessions, expired, view, clients, site>>

\* cache.Set: the entry, stamped now + CACHE_TTL, and the deferred Unlock;
\* the handler answers the quote.
SetEntry(p) ==
  /\ pc[p] = "set_entry"
  /\ cache' = SetAmountEntry(cache, args[p].inputToken, args[p].outputToken,
                             args[p].amount, ret[p].res, now)
  /\ mutex' = [mutex EXCEPT !.w = None]
  /\ resp' = [resp EXCEPT ![p] = OK(ret[p].res)]
  /\ pc' = [pc EXCEPT ![p] = "done"]
  /\ lastSet' = [lastSet EXCEPT ![KeyOf(p)] =
                   [n |-> @.n + 1, q |-> ret[p].res, at |-> now]]
  /\ UNCHANGED <<now, args, got, ret, started, trace, fetches, pre>>
  /\ UNCHANGED <<sessions, expired, view, clients, site>>

\* An hour passes.
Tick ==
  /\ now < MaxTime
  /\ now' = now + 1
  /\ UNCHANGED <<cache, mutex, pc, args, got, ret, resp, started, trace, fetches,
                 lastSet, pre>>
  /\ UNCHANGED <<sessions, expired, view, clients, site>>

\* The steps of a goroutine inside a request.
Step(p) ==
  \/ RLock(p)
  \/ GetReturn(p)
  \/ \E page \in site : FetchReturn(p, page)
  \/ Lock(p)
  \/ LockAcquired(p)
  \/ SetInput(p)
  \/ SetOutput(p)
  \/ SetEntry(p)

Next ==
  \/ \E p \in Procs : \E q \in clients : Request(p, q[1], q[2], q[3])
  \/ \E p \in Procs : Step(p)
  \/ Tick

Spec == Init /\ [][Next]_vars

\* The Go scheduler runs every runnable goroutine, and the Fetcher returns
\* within its deadline.
FairSpec == Spec /\ \A p \in Procs : WF_vars(Step(p))

\* The server under one scraping case: every request is for the pair of the
\* case, every session sees its page.
ScrapeInit == \E c \in ScrapeCases : Start({c.q}, {c.page})

ScrapeSpec == ScrapeInit /\ [][Next]_vars

\* The server under requests for aliasing symbols.
AliasInit == Start(AliasQueries, Pages)

AliasSpec == AliasInit /\ [][Next]_vars

\* ------------------------------------------------- inside one Fetcher call
\* The second specification follows fetchTokenPrice through the steps of its
\* chromedp.Run, with the deadline of its context, on goroutines that call
\* it directly.

\* A page, and whether its amount input ever becomes visible.
Views == { [page |-> pg, visible |-> b] : pg \in FetchPages, b \in BOOLEAN }

\* The positions inside chromedp.Run, and inside the call.
InRun == {"navigate", "wait_visible", "send_keys", "sleep", "read"}
InCall == InRun \cup {"parse"}

\* A call of fetchTokenPrice is in progress on p.
Calling(p) == pc[p] \in InCall \cup {"fetching"}

\* fetchTokenPrice is called: the allocator, the browser context and the
\* 30-second timeout context are made, their cancels deferred.
Call(p, q, v) ==
  /\ pc[p] \in {"idle", "returned"}
  /\ started < MaxRequests
  /\ started' = started + 1
  /\ args' = [args EXCEPT ![p] = [inputToken |-> q[1], outputToken |-> q[2],
                                  amount |-> q[3]]]
  /\ view' = [view EXCEPT ![p] = v]
  /\ ret' = [ret EXCEPT ![p] = NoRet]
  /\ sessions' = NewContext(sessions, p)
  /\ expired' = [expired EXCEPT ![p] = FALSE]
  /\ pc' = [pc EXCEPT ![p] = "navigate"]
  /\ UNCHANGED <<cache, mutex, now, got, resp, trace, fetches, lastSet, pre,
                 clients, site>>

\* The call on p returns r: the deferred cancels run.
Return(p, r) ==
  /\ ret' = [ret EXCEPT ![p] = r]
  /\ sessions' = cancel(sessions, p, r)
  /\ pc' = [pc EXCEPT ![p] = "returned"]
  /\ UNCHANGED <<cache, mutex, now, args, got, resp, started, trace, fetches,
                 lastSet, pre, expired, view, clients, site>>

\* A step of chromedp.Run is done, the next one starts.
Goto(p, to) ==
  /\ pc' = [pc EXCEPT ![p] = to]
  /\ UNCHANGED <<cache, mutex, now, args, got, ret, resp, started, trace,
                 fetches, lastSet, pre, sessions, expired, view, clients, site>>

\* chromedp.Navigate(targetURL); a page that does not load ends the run with
\* its error, and the call with it.
Navigate(p) ==
  /\ pc[p] = "navigate"
  /\ ~expired[p]
  /\ IF view[p].page.runErr # NoErr
       THEN Return(p, fetchTokenPrice(args[p].inputToken, args[p].outputToken,
                                      args[p].amount,
                                      TargetURL(args[p].inputToken, args[p].outputToken),
                                      view[p].page, now))
       ELSE Goto(p, "wait_visible")

\* chromedp.WaitVisible of the amount input: returns when it is visible.
WaitVisible(p) ==
  /\ pc[p] = "wait_visible"
  /\ ~expired[p]
  /\ view[p].visible
  /\ Goto(p, "send_keys")

\* chromedp.Clear and chromedp.SendKeys(amount)
SendKeys(p) ==
  /\ pc[p] = "send_keys"
  /\ ~expired[p]
  /\ Goto(p, "sleep")

\* chromedp.Sleep(5 * time.Second)
Sleep(p) ==
  /\ pc[p] = "sleep"
  /\ ~expired[p]
  /\ Goto(p, "read")

\* chromedp.Value, chromedp.Evaluate and the fallback ActionFunc: the run
\* returns nil.
Value(p) ==
  /\ pc[p] = "read"
  /\ ~expired[p]
  /\ Goto(p, "parse")

\* After the run: trim, parse, truncate, build the Result, return.
RunReturn(p) ==
  /\ pc[p] = "parse"
  /\ Return(p, fetchTokenPrice(args[p].inputToken, args[p].outputToken,
                               args[p].amount,
                               TargetURL(args[p].inputToken, args[p].outputToken),
                               view[p].page, now))

\* The timer of context.WithTimeout(ctx, 30*time.Second) fires while the run
\* is still going.
DeadlineElapses(p) ==
  /\ pc[p] \in InRun
  /\ ~expired[p]
  /\ expired' = [expired EXCEPT ![p] = TRUE]
  /\ UNCHANGED <<cache, mutex, now, pc, args, got, ret, resp, started, trace,
                 fetches, lastSet, pre, sessions, view, clients, site>>

\* Mutant: a run that waits for the amount input does not look at its context.
RunAbort_NotWhileWaiting(p) ==
  /\ pc[p] \in InRun \ {"wait_visible"}
  /\ expired[p]
  /\ Return(p, [res |-> EmptyResult, err |-> DeadlineExceeded])

\* chromedp.Run on a context that is done: the step in progress is given up,
\* the run returns the context's error and the call returns it.
RunAbort(p) ==
  /\ pc[p] \in InRun
  /\ expired[p]
  /\ Return(p, [res |-> EmptyResult, err |-> DeadlineExceeded])

\* The steps of a goroutine inside a call.
FetchStep(p) ==
  \/ Navigate(p)
  \/ WaitVisible(p)
  \/ SendKeys(p)
  \/ Sleep(p)
  \/ Value(p)
  \/ RunReturn(p)
  \/ DeadlineElapses(p)
  \/ RunAbort(p)

FetchNext ==
  \/ \E p \in Procs : \E q \in ValidQueries : \E v \in Views : Call(p, q, v)
  \/ \E p \in Procs : FetchStep(p)

\* The scheduler runs every runnable goroutine, the browser answers or stays
\* silent, and the runtime fires the timer of the timeout context.
FetchSpec ==
  Init /\ [][FetchNext]_vars /\ \A p \in Procs : WF_vars(FetchStep(p))

\* =================================================================== claims
\* The triples physically stored in the map c.
StoredTriples(c) ==
  UNION { UNION { { <<i, o, a>> : a \in DOMAIN c[i][o] } : o \in DOMAIN c[i] }
          : i \in DOMAIN c }

\* The request on p has left the step taken at position `at`.
Leaves(p, at) == pc[p] = at /\ pc'[p] # at

\* C1: a request that arrives when exactly one Fetcher call has been made for
\* its triple and the quote of that call is stored, and that is handled before
\* the entry's TTL has elapsed, is answered 200 with the stored quote, calls
\* Get and nothing else, and leaves the Fetcher invoked exactly once for the
\* triple.
C1_SecondRequestServedFromCache ==
  \A p \in Procs :
    (/\ pc[p] = "done"
     /\ pre[p].fetches = 1
     /\ pre[p].entry # <<>>
     /\ now < pre[p].entry[1].ExpiresAt)
    => /\ resp[p].status = 200
       /\ resp[p].body = pre[p].entry[1].Result
       /\ trace[p] = <<"get">>
       /\ fetches[KeyOf(p)] = 1

C1_Witness ==
  \E p \in Procs :
    /\ pc[p] = "done"
    /\ pre[p].fetches = 1
    /\ pre[p].entry # <<>>
    /\ now < pre[p].entry[1].ExpiresAt
    /\ now > pre[p].entry[1].ExpiresAt - CACHE_TTL
    /\ resp[p].status = 200

\* C2 (as claimed): Get reports found=true only while the current time is
\* strictly before the expiry of the stored entry; at the expiry instant it
\* reports found=false.
C2_FoundOnlyStrictlyBeforeExpiry ==
  [][\A p \in Procs :
       (Leaves(p, "get_read") /\ got'[p].found)
       => /\ Stored(cache, KeyOf(p)) # <<>>
          /\ now < Stored(cache, KeyOf(p))[1].ExpiresAt]_vars

C4_KeyedByExactTriple ==
  /\ \A k \in StoredTriples(cache) : k \in Keys /\ lastSet[k].n > 0
  /\ \A p \in Procs : got[p].found => lastSet[KeyOf(p)].n > 0

\* A Get of ("usdc","eth","1.0") or of ("eth","usdc","1") has missed while
\* ("usdc","eth","1") is stored and valid.
C4_Witness ==
  \E p \in Procs :
    /\ KeyOf(p) \in {<<"usdc", "eth", "1.0">>, <<"eth", "usdc", "1">>}
    /\ pc[p] = "fetching"
    /\ Get(cache, "usdc", "eth", "1", now).found
    /\ Stored(cache, KeyOf(p)) = <<>>

\* C5: Get never changes the cache, whether the key is absent, the entry stale
\* or the entry valid; a stale entry stays stored.
C5_GetLeavesCacheUnchanged ==
  [][\A p \in Procs :
       (Leaves(p, "get_rlock") \/ Leaves(p, "get_read")) => cache' = cache]_vars

\* A Get has missed on a stale entry, which is still stored.
C5_Witness ==
  \E p \in Procs :
    /\ pc[p] = "fetching"
    /\ Stored(cache, KeyOf(p)) # <<>>
    /\ now > Stored(cache, KeyOf(p))[1].ExpiresAt

\* C6: the Set of (i, o, a, q) leaves, for (i, o, a), the entry q expiring at
\* the time of the Set plus CACHE_TTL, whatever was stored, and leaves the
\* entry of every other triple as it was; creating the levels changes no
\* entry.
C6_SetReplacesOnlyItsTriple ==
  [][\A p \in Procs :
       /\ Leaves(p, "set_entry")
          => /\ Stored(cache', KeyOf(p)) = <<MkEntry(ret[p].res, now + CACHE_TTL)>>
             /\ \A k \in (StoredTriples(cache) \cup StoredTriples(cache')) \ {KeyOf(p)} :
                  Stored(cache', k) = Stored(cache, k)
       /\ (Leaves(p, "set_input") \/ Leaves(p, "set_output"))
          => \A k \in StoredTriples(cache) \cup StoredTriples(cache') :
               Stored(cache', k) = Stored(cache, k)]_vars

\* A Set has replaced the entry its request found on arrival, beside the entry
\* of a sibling amount or with an entry of another expiry.
C6_Witness ==
  \E p \in Procs :
    /\ pc[p] = "done"
    /\ trace[p] = <<"get", "fetch", "set">>
    /\ \/ /\ pre[p].entry # <<>>
          /\ Stored(cache, KeyOf(p))[1].ExpiresAt > pre[p].entry[1].ExpiresAt
       \/ \E k \in Keys \ {KeyOf(p)} :
            k[1] = KeyOf(p)[1] /\ k[2] = KeyOf(p)[2] /\ Stored(cache, k) # <<>>

\* The positions inside the critical sections of Get and of Set, and inside
\* a call of either.
ReadSection == {"get_read"}
WriteSection == {"set_input", "set_output", "set_entry"}
CacheCall == {"get_rlock", "get_read", "set_lock", "set_wait"} \cup WriteSection

\* No level of the nested map is empty: every level holds an entry below it.
NoEmptyLevel(c) ==
  \A i \in DOMAIN c :
    /\ DOMAIN c[i] # {}
    /\ \A o \in DOMAIN c[i] : DOMAIN c[i][o] # {}

\* C7: a Set is never in its critical section together with a Get or another
\* Set; a Get in its critical section never sees a level that a Set has
\* created and not yet filled; and every started Get and Set completes.
C7_ReadersWriterExclusion ==
  /\ [](\A p \in Procs :
          pc[p] \in WriteSection
          => \A q \in Procs \ {p} : pc[q] \notin WriteSection \cup ReadSection)
  /\ []((\E p \in Procs : pc[p] \in ReadSection) => NoEmptyLevel(cache))
  /\ \A p \in Procs : (pc[p] \in CacheCall) ~> (pc[p] \notin CacheCall)

\* A Get waits for the lock while a Set holds it with a level created and not
\* yet filled.
C7_Witness ==
  \E p \in Procs, q \in Procs :
    /\ pc[p] = "get_rlock"
    /\ pc[q] \in WriteSection
    /\ ~NoEmptyLevel(cache)

\* A request arrives on p and is answered at once.
Arrives(p) ==
  /\ started' # started
  /\ pc[p] \in {"idle", "done"}
  /\ pc'[p] = "done"
  /\ \A q \in Procs \ {p} : args'[q] = args[q]

\* Some parameter of the request on p is missing.
Missing(p) ==
  args[p].inputToken = "" \/ args[p].outputToken = "" \/ args[p].amount = ""

\* The keys of the registry.
RegistryKeys == {"mon", "wmon", "dak", "lbtc", "usdc", "usdt", "eth", "wbtc"}

\* C8: a request with a missing parameter is answered 400 with the message of
\* the presence test, also when a symbol it gives is not in the registry; it
\* makes no call of Get, of the Fetcher or of Set, and its step leaves the
\* cache unchanged.
C8_MissingParameter ==
  /\ [](\A p \in Procs :
          (pc[p] # "idle" /\ Missing(p))
          => /\ pc[p] = "done"
             /\ resp[p] =
                  BadRequest(<<"input, output, and amount parameters are required">>)
             /\ trace[p] = <<>>)
  /\ [][\A p \in Procs :
          (Arrives(p) /\ Missing(p)')
          => (cache' = cache /\ fetches' = fetches /\ lastSet' = lastSet)]_vars

\* A request without amount and with a symbol unknown to the registry has
\* been answered.
C8_Witness ==
  \E p \in Procs :
    /\ pc[p] = "done"
    /\ args[p].amount = ""
    /\ args[p].inputToken \notin RegistryKeys
    /\ args[p].inputToken # ""
    /\ resp[p].status = 400

\* The symbol an unknown-symbol answer has to name: the input symbol when it
\* is unknown, else the output symbol.
Offending(p) ==
  IF args[p].inputToken \notin RegistryKeys
    THEN args[p].inputToken
    ELSE args[p].outputToken

\* C9: a request with all parameters present and a symbol that is not exactly
\* a key of the registry is answered 400 with a text that names the offending
\* symbol (the input symbol when both are unknown); it makes no call of Get,
\* of the Fetcher or of Set, and its step leaves the cache unchanged.
C9_UnknownSymbol ==
  /\ [](\A p \in Procs :
          (/\ pc[p] # "idle"
           /\ ~Missing(p)
           /\ (args[p].inputToken \notin RegistryKeys
                 \/ args[p].outputToken \notin RegistryKeys))
          => /\ pc[p] = "done"
             /\ resp[p].status = 400
             /\ resp[p].body.error[Len(resp[p].body.error)] = Offending(p)
             /\ trace[p] = <<>>)
  /\ [][\A p \in Procs :
          (/\ Arrives(p)
           /\ (args'[p].inputToken \notin RegistryKeys
                 \/ args'[p].outputToken \notin RegistryKeys))
          => (cache' = cache /\ fetches' = fetches /\ lastSet' = lastSet)]_vars

\* Requests naming "doge", and "USDC" in place of "usdc", have been answered
\* 400.
C9_Witness ==
  \E p \in Procs, q \in Procs :
    /\ pc[p] = "done" /\ KeyOf(p) = <<"doge", "USDC", "1">>
    /\ resp[p] = BadRequest(<<"unsupported input token: ", "doge">>)
    /\ pc[q] = "done" /\ KeyOf(q) = <<"usdc", "USDC", "1">>
    /\ resp[q] = BadRequest(<<"unsupported output token: ", "USDC">>)

\* 1 when the request on p has called Set, else 0.
OwnSets(p) == IF pc[p] = "done" /\ Len(trace[p]) = 3 THEN 1 ELSE 0

\* C10: a request whose Fetcher call returns an error is answered 500 with
\* that error, has called Get and the Fetcher once each and Set never, and
\* leaves the cache as it was; and a request for the same triple that arrives
\* after it, with no Set for the triple by another request since, calls the
\* Fetcher again.
C10_FetchErrorNotCached ==
  /\ [](\A p \in Procs :
          /\ (pc[p] = "done" /\ ret[p].err # NoErr)
             => /\ resp[p] = InternalServerError(ret[p].err)
                /\ trace[p] = <<"get", "fetch">>
          /\ (/\ pc[p] = "done"
              /\ pre[p].failed
              /\ lastSet[KeyOf(p)].n = pre[p].sets + OwnSets(p))
             => (Len(trace[p]) >= 2 /\ trace[p][2] = "fetch"))
  /\ [][\A p \in Procs :
          (Leaves(p, "fetching") /\ ret'[p].err # NoErr)
          => (cache' = cache /\ pc'[p] = "done")]_vars

\* After a request answered 500, the next request for the triple has called
\* the Fetcher again.
C10_Witness ==
  \E p \in Procs, q \in Procs :
    /\ p # q
    /\ pc[p] = "done" /\ pc[q] = "done"
    /\ KeyOf(p) = KeyOf(q)
    /\ resp[q].status = 500
    /\ pre[p].failed
    /\ pre[p].fetches = 1
    /\ fetches[KeyOf(p)] = 2

\* C11: the live browser sessions are exactly the sessions of the Fetcher
\* calls in progress, one per call and owned by it: a call has its session
\* from the moment it starts, and whatever it returns (a quote, the run's
\* error, a parse error, the deadline's error) its session is gone when it
\* has returned.
C11_OneSessionPerCall ==
  /\ sessions = {p \in Procs : Calling(p)}
  /\ Cardinality(sessions) = Cardinality({p \in Procs : Calling(p)})
  /\ \A p \in Procs : pc[p] = "returned" => p \notin sessions

\* One call has returned an error and its session is gone while another call
\* is in progress with its own.
C11_Witness ==
  \E p \in Procs, q \in Procs :
    /\ p # q
    /\ pc[p] \in InRun
    /\ pc[q] = "returned"
    /\ ret[q].err # NoErr
    /\ sessions = {p}

ThePage == CHOOSE page \in site : TRUE

\* The decimal value of the output text the call resolved on the page.
ScrapedOutput(page) == ParseFloat(TrimSpace(ResolveOutput(page))).val

\* The largest multiple of 10^-d that is <= the decimal v, for v >= 0.
LargestMultiple(v, d) ==
  IF v.k <= d THEN Dec(v.n * Pow10(d - v.k), d) ELSE Dec(v.n \div Pow10(v.k - d), d)

\* The decimal places of the output amount: 8 for lbtc and wbtc, 5 for eth,
\* 2 for usdc, usdt and every other symbol.
Places(o) == IF o \in {"lbtc", "wbtc"} THEN 8 ELSE IF o = "eth" THEN 5 ELSE 2

\* C13: the output amount of a quote is the scraped output value floored to
\* the decimal places of the output token: for a scraped value v >= 0 it is
\* the largest multiple of 10^-d that is <= v.
C13_FlooredToDecimalPlaces ==
  \A p \in Procs :
    (ret[p].err = NoErr /\ ret[p].res # EmptyResult /\ ScrapedOutput(ThePage).n >= 0)
    => ret[p].res.Output.Amount =
         LargestMultiple(ScrapedOutput(ThePage), Places(args[p].outputToken))

\* The Fetcher call of the request on p has returned.
Returned(p) == Len(trace[p]) >= 2 /\ pc[p] # "fetching"

\* The first of the primary and the fallback value that is neither empty nor
\* "0"; when the fallback read fails or reads nothing, the primary value.
FirstValue(page) ==
  LET primary == IF page.second = <<>> THEN <<"0">> ELSE page.second
  IN IF primary \notin {<<>>, <<"0">>} THEN primary
     ELSE IF page.fbErr \/ page.fallback = <<>> THEN primary
     ELSE page.fallback

\* What parsing and truncating the first value of each page gives.
FirstValues ==
  { [page |-> page, d |-> d,
     is |-> LET v == ParseFloat(TrimSpace(FirstValue(page)))
            IN [err |-> v.err, out |-> FloorTo(v.val, d)]] :
      page \in ScrapePages, d \in {2, 5, 8} }

\* C16: the output value of a call is the primary value, unless that is empty
\* or "0" and the fallback read succeeds with a non-empty value, which then
\* replaces it; the call parses and truncates that value, and a fallback read
\* that fails does not fail the call.
C16_TwoStepLookup ==
  \A p \in Procs :
    (Returned(p) /\ ParseFloat(TrimSpace(ThePage.inputValue)).err = NoErr)
    => LET v == (CHOOSE e \in FirstValues :
                   /\ e.page = ThePage
                   /\ e.d = DecimalPlaces(args[p].outputToken)).is
       IN /\ v.err # NoErr => ret[p] = [res |-> EmptyResult, err |-> v.err]
          /\ v.err = NoErr =>
               /\ ret[p].err = NoErr
               /\ ret[p].res.Output.Amount = v.out

\* A call has returned the fallback value of a page whose primary value is
\* "0".
C16_Witness ==
  \E p \in Procs :
    /\ Returned(p)
    /\ ThePage.second = <<"0">>
    /\ ThePage.fallback = <<"7", ".", "2", "5">>
    /\ ret[p].res.Output.Amount = Dec(725000, 5)

\* The read-back input value, and the resolved output value, of the page
\* parse.
InputParses(page) == ParseFloat(TrimSpace(page.inputValue)).err = NoErr
OutputParses(page) == ParseFloat(TrimSpace(ResolveOutput(page))).err = NoErr

\* C17: a call on a page whose read-back input value or resolved output
\* value does not parse returns an error and the empty quote; the request
\* has called the Fetcher once, is answered 500 and nothing is stored.  A
\* call returns a quote only when the run succeeded and both values parsed.
C17_ParseErrorIsFatal ==
  \A p \in Procs :
    Returned(p)
    => /\ (ThePage.runErr = NoErr /\ (~InputParses(ThePage) \/ ~OutputParses(ThePage)))
          => /\ ret[p].err # NoErr
             /\ ret[p].res = EmptyResult
             /\ trace[p] = <<"get", "fetch">>
             /\ pc[p] = "done"
             /\ resp[p] = InternalServerError(ret[p].err)
             /\ StoredTriples(cache) = {}
       /\ ret[p].res # EmptyResult
          => (ThePage.runErr = NoErr /\ InputParses(ThePage) /\ OutputParses(ThePage))

\* A request is answered 500 with the parse error of the output value.
C17_Witness ==
  \E p \in Procs :
    /\ pc[p] = "done"
    /\ InputParses(ThePage)
    /\ ThePage.second = <<"1", ",", "0", "0", "0", ".", "5">>
    /\ resp[p].status = 500
    /\ resp[p].body.error = <<"strconv.ParseFloat: parsing ",
                              <<"1", ",", "0", "0", "0", ".", "5">>, ": invalid syntax">>
    /\ StoredTriples(cache) = {}

\* C18: the exchange rate of a quote is its truncated output amount over its
\* parsed read-back input amount; a read-back input of zero is no error: the
\* call returns a quote, which the handler stores under the triple of the
\* request and answers.
C18_RateOfTruncatedOutput ==
  \A p \in Procs :
    Returned(p)
    => /\ ret[p].err = NoErr
          => /\ ret[p].res.Input.Amount = ParseFloat(TrimSpace(ThePage.inputValue)).val
             /\ ret[p].res.ExchangeRate.den = ret[p].res.Input.Amount
             /\ ret[p].res.ExchangeRate.num = ret[p].res.Output.Amount
             /\ ret[p].res.Output.Amount.k = Places(args[p].outputToken)
             /\ ScrapedOutput(ThePage).k > Places(args[p].outputToken)
                => ret[p].res.ExchangeRate.num # ScrapedOutput(ThePage)
       /\ (/\ ThePage.runErr = NoErr
           /\ InputParses(ThePage)
           /\ OutputParses(ThePage)
           /\ ParseFloat(TrimSpace(ThePage.inputValue)).val.n = 0)
          => /\ ret[p].err = NoErr
             /\ ret[p].res.ExchangeRate.den.n = 0
             /\ pc[p] = "done"
                => /\ resp[p] = OK(ret[p].res)
                   /\ KeyOf(p) \in StoredTriples(cache)
                   /\ Stored(cache, KeyOf(p))[1].Result.ExchangeRate.den.n = 0

\* A request whose read-back input was zero is answered 200 with a quote
\* that is stored, its rate a division by zero.
C18_Witness ==
  \E p \in Procs :
    /\ pc[p] = "done"
    /\ ThePage.inputValue = <<"0">>
    /\ resp[p].status = 200
    /\ resp[p].body.ExchangeRate = [num |-> Dec(250000, 5), den |-> Dec(0, 0)]
    /\ Stored(cache, KeyOf(p)) # <<>>
    /\ Stored(cache, KeyOf(p))[1].Result = resp[p].body

\* The request on q has missed and has not stored yet.
Missed(q) == pc[q] \in {"fetching", "set_lock", "set_wait"}

\* The request on p has called Get, the Fetcher and Set.
Stores(p) == trace[p] = <<"get", "fetch", "set">>

\* C14: requests are not coalesced.  A request that probes the cache for the
\* triple of a request that has missed and not stored yet, with no Set for the
\* triple since that one arrived, misses too and calls the Fetcher, with a
\* session of its own next to the other's; each of them whose call succeeds
\* calls Set; and the entry of a triple is the one of the last Set for it,
\* expiring CACHE_TTL after that Set.
C14_NoCoalescing ==
  /\ [][\A p \in Procs, q \in Procs :
          (/\ p # q
           /\ Leaves(p, "get_read")
           /\ Missed(q)
           /\ KeyOf(q) = KeyOf(p)
           /\ lastSet[KeyOf(q)].n = pre[q].sets)
          => /\ ~got'[p].found
             /\ pc'[p] = "fetching"
             /\ fetches'[KeyOf(p)] = fetches[KeyOf(p)] + 1
             /\ p \in sessions'
             /\ pc[q] = "fetching" => sessions' = {p, q}]_vars
  /\ [](\A p \in Procs :
          (pc[p] = "done" /\ Len(trace[p]) >= 2 /\ ret[p].err = NoErr) => Stores(p))
  /\ [](\A k \in clients :
          lastSet[k].n > 0
          => Stored(cache, k) = <<MkEntry(lastSet[k].q, lastSet[k].at + CACHE_TTL)>>)

\* Two requests for one triple have both missed, fetched and stored at time
\* 0, so that neither probed after the other's Set.
C14_Witness ==
  \E p \in Procs, q \in Procs :
    /\ p # q
    /\ pc[p] = "done" /\ pc[q] = "done"
    /\ KeyOf(p) = KeyOf(q)
    /\ Stores(p) /\ Stores(q)
    /\ now = 0
    /\ fetches[KeyOf(p)] = 2
    /\ lastSet[KeyOf(p)].n = 2

\* C15: an entry is written only by the Set of a request whose Fetcher call
\* returned no error, and is the quote of that call; no step removes a stored
\* triple.
C15_EntriesOnlyFromFetches ==
  [][/\ StoredTriples(cache) \subseteq StoredTriples(cache')
     /\ \A k \in StoredTriples(cache') :
          Stored(cache', k) # Stored(cache, k)
          => \E p \in Procs :
               /\ Leaves(p, "set_entry")
               /\ KeyOf(p) = k
               /\ trace[p] = <<"get", "fetch", "set">>
               /\ ret[p].err = NoErr
               /\ Stored(cache', k) = <<MkEntry(ret[p].res, now + CACHE_TTL)>>]_vars

\* A request has been answered 500 for a triple whose stale entry is still
\* stored.
C15_Witness ==
  \E p \in Procs :
    /\ pc[p] = "done"
    /\ resp[p].status = 500
    /\ Stored(cache, KeyOf(p)) # <<>>
    /\ now > Stored(cache, KeyOf(p))[1].ExpiresAt

\* C19: the symbols of a stored triple are keys of the registry and its
\* amount is not empty; the quote stored under a triple, and the quote that
\* answers a request, carry the symbols of the triple; a request is answered
\* from the cache only by the entry of its own triple, not by the entry of a
\* symbol with the same address.
C19_KeyedBySymbols ==
  /\ \A k \in StoredTriples(cache) :
       /\ k[1] \in RegistryKeys
       /\ k[2] \in RegistryKeys
       /\ k[3] # ""
       /\ Stored(cache, k)[1].Result.Input.Token = k[1]
       /\ Stored(cache, k)[1].Result.Output.Token = k[2]
  /\ \A p \in Procs :
       /\ got[p].found
          => /\ KeyOf(p) \in StoredTriples(cache)
             /\ got[p].Result.Input.Token = args[p].inputToken
             /\ got[p].Result.Output.Token = args[p].outputToken
       /\ (pc[p] = "done" /\ resp[p].status = 200)
          => /\ resp[p].body.Input.Token = args[p].inputToken
             /\ resp[p].body.Output.Token = args[p].outputToken
       /\ (pc[p] = "done" /\ resp[p].status = 200 /\ pre[p].entry = <<>>
           /\ lastSet[KeyOf(p)].n = pre[p].sets + OwnSets(p))
          => Stores(p)

\* A goroutine has stored the quote of usdc to mon and then, that entry still
\* valid, has fetched and stored the quote of usdt to mon.
C19_Witness ==
  \E p \in Procs :
    /\ pc[p] = "done"
    /\ \A q \in Procs \ {p} : pc[q] = "idle"
    /\ KeyOf(p) = <<"usdt", "mon", "1">>
    /\ Stores(p)
    /\ Stored(cache, <<"usdc", "mon", "1">>) # <<>>
    /\ now <= Stored(cache, <<"usdc", "mon", "1">>)[1].ExpiresAt
    /\ Stored(cache, <<"usdt", "mon", "1">>) # <<>>

\* C20: a hit answers the stored quote as it is, timestamp included, with no
\* Fetcher call and no Set, and leaves the entry and its expiry alone; a
\* request that probes an entry after its expiry calls the Fetcher again; a
\* Set overwrites the entry with the new quote, expiring CACHE_TTL after the
\* Set; so a Fetcher call for a triple with no other request for it in flight
\* comes more than CACHE_TTL after the last Set for the triple.
C20_HitThenRefetchWhenStale ==
  [][\A p \in Procs :
       /\ (Leaves(p, "get_read") /\ got'[p].found)
          => /\ resp'[p] = OK(Stored(cache, KeyOf(p))[1].Result)
             /\ pc'[p] = "done"
             /\ cache' = cache
             /\ fetches' = fetches
             /\ lastSet' = lastSet
             /\ sessions' = sessions
       /\ (/\ Leaves(p, "get_read")
           /\ Stored(cache, KeyOf(p)) # <<>>
           /\ now > Stored(cache, KeyOf(p))[1].ExpiresAt)
          => /\ pc'[p] = "fetching"
             /\ fetches'[KeyOf(p)] = fetches[KeyOf(p)] + 1
       /\ Leaves(p, "set_entry")
          => Stored(cache', KeyOf(p)) = <<MkEntry(ret[p].res, now + CACHE_TTL)>>
       /\ (/\ Leaves(p, "get_read")
           /\ pc'[p] = "fetching"
           /\ lastSet[KeyOf(p)].n > 0
           /\ \A q \in Procs \ {p} : ~(Missed(q) /\ KeyOf(q) = KeyOf(p)))
          => now > lastSet[KeyOf(p)].at + CACHE_TTL]_vars

\* A request that found the entry of its triple expired has fetched again,
\* and its Set has overwritten the entry with the new quote, which expires
\* CACHE_TTL after that Set.
C20_Witness ==
  \E p \in Procs :
    /\ pc[p] = "done"
    /\ Stores(p)
    /\ pre[p].entry # <<>>
    /\ pre[p].entry[1].ExpiresAt < lastSet[KeyOf(p)].at
    /\ fetches[KeyOf(p)] = 2
    /\ resp[p] = OK(ret[p].res)
    /\ Stored(cache, KeyOf(p)) = <<MkEntry(ret[p].res, lastSet[KeyOf(p)].at + CACHE_TTL)>>

====
